---------------------------- MODULE Spec2Model ----------------------------
(***************************************************************************)
(* The rpmsg virtual serial transport, drivers/tty/rpmsg_tty.c.            *)
(*                                                                         *)
(* One rpmsg channel (struct rpmsg_device) carries one tty port            *)
(* (struct rpmsg_tty_port).  The module models                             *)
(*   - the registry tty_idr and the port lifecycle (probe / remove),       *)
(*   - the receive callback rpmsg_tty_cb and its two handlers,             *)
(*   - the tty operations write, write_room, throttle, unthrottle,         *)
(*     install, and the tty_port operations activate, shutdown, dtr_rts.   *)
(*                                                                         *)
(* Functions that sleep or that run in another context than their peers    *)
(* are cut into steps at the places where another context can run:         *)
(* probe and remove (three steps each), the receive callback (dispatch,    *)
(* handler body), write (gate, send) and dtr_rts (flag, control frame).    *)
(* The driver takes no lock other than idr_lock, so every such cut is a    *)
(* real preemption point.                                                  *)
(*                                                                         *)
(* Spec follows one channel.  In it write and dtr_rts interleave with each *)
(* other and with every other operation of the port, while a receive       *)
(* callback and a probe or remove, once begun, run to their end.           *)
(*                                                                         *)
(* A NULL dereference or a use of a released port sets `fault'; the model  *)
(* follows a behaviour up to its first fault and stops there.              *)
(*                                                                         *)
(* RaceSpec interleaves every step of the one channel, FairSpec schedules  *)
(* its writer, RegSpec starts from a full registry, IsoSpec follows two    *)
(* channels one operation at a time, PeerSpec has a peer that sends Data   *)
(* frames only.                                                            *)
(*                                                                         *)
(* The module also models the FMC2 block of drivers/bus/stm32-fmc2-ebi.c:  *)
(* the count nb_ctrl_used and the FMC2EN bit shared by the controllers,    *)
(* and the EBI controller's probe with stm32_fmc2_ebi_parse_dt, remove,    *)
(* suspend and resume (Fmc2Spec).  stm32_fmc2_enable and                   *)
(* stm32_fmc2_disable are cut between the atomic operation on the count    *)
(* and the update of the register.                                         *)
(***************************************************************************)
EXTENDS Integers, Sequences, FiniteSets, TLC

\* ------------------------------------------------------------------ bounds
NumChan == 2
MaxByte == 2
MaxMsgLen == 3
MaxWriteLen == 2
MaxPayloadSize == 3
TtyBufLimit == 1
NumCtrl == 2
MaxChildren == 2
MaxUnderflow == 1

\* ------------------------------------------------------- program constants
MAX_TTY_RPMSG == 32
RPMSG_DATA == 0
RPMSG_CTRL == 1
NUM_RPMSG_TTY_TYPE == 2
DATA_TERM_READY == 0
EINVAL == 22
ENOMEM == 12
ENOSPC == 28
ENODEV == 19
FMC2_MAX_EBI_CE == 4
FMC2_BCR1 == 0
FMC2_PCSCNTR == 32
FMC2_BCR1_FMC2EN == 31
FMC2_BCR_MBKEN == 0

\* sizeof(struct rpmsg_tty_payload): u8 cmd + zero-length array
SizeofPayload == 1
\* sizeof(struct rpmsg_tty_ctrl): u8 ctrl + zero-length array
SizeofCtrl == 1

Chan == 1..NumChan
Byte == 0..MaxByte
NULL == 0

Min(a, b) == IF a <= b THEN a ELSE b

SeqsUpTo(S, n) == UNION {[1..k -> S] : k \in 0..n}

\* the datagrams the remote processor may put on the wire
Msgs == SeqsUpTo(Byte, MaxMsgLen)
\* the buffers the tty layer may hand to write
WriteBufs == SeqsUpTo(Byte, MaxWriteLen)
\* what rpmsg_get_buf_payload_size may answer: an errno or a size
PayloadSizes == {-EINVAL} \cup (0..MaxPayloadSize)
\* what rpmsg_trysend may answer
SendResults == {0, -ENOMEM}
\* what tty_port_register_device may answer: 0 for a device, or the errno
\* of its ERR_PTR
RegisterResults == {0, -ENOMEM, -EINVAL}

Prefix(s, n) == [i \in 1..n |-> s[i]]

\* ------------------------------------------------------------------- state
VARIABLES
    st,        \* per channel: position of the channel in probe / remove
    tty_idr,   \* the registry: id -> channel owning the port, or NULL
    id,        \* cport->id
    cts,       \* cport->cts
    rpdev,     \* cport->rpdev: NULL or the channel
    drvdata,   \* dev_get_drvdata(&rpdev->dev): NULL or the channel's port
    ttydev,    \* the tty device ttyRPMSG<id> is registered
    tty,       \* per port: the tty session bound through tty->driver_data
    initialized, \* tty_port_initialized(&cport->port)
    xmit_buf,  \* tty_port xmit buffer is allocated
    flip,      \* tty flip buffer of the port
    hup,       \* a hangup was requested and has not run yet
    rx,        \* the receive context
    wr,        \* a write in flight
    dtr,       \* a dtr_rts in flight
    applied,   \* per port: the last TerminalReady update that was applied
    last,      \* what the latest step returned and handed to its peers
    fault,     \* "none", or the fault that stopped the system
    nb_ctrl_used, \* fmc2->nb_ctrl_used
    regmap,    \* fmc2->regmap: register offset -> the bits that are set
    fmc2_ctrl,      \* per FMC2 controller: its state and its position
    ebi        \* struct stm32_fmc2_ebi, and where parse_dt stands

vars == <<st, tty_idr, id, cts, rpdev, drvdata, ttydev, tty, initialized,
          xmit_buf, flip, hup, rx, wr, dtr, applied, last, fault,
          nb_ctrl_used, regmap, fmc2_ctrl, ebi>>

\* the state of the FMC2 block and of its controllers
fmc2vars == <<nb_ctrl_used, regmap, fmc2_ctrl, ebi>>

portvars == <<tty_idr, id, cts, rpdev, drvdata, ttydev, tty, initialized,
              xmit_buf, flip, hup, applied>>

Idle == [pc |-> "idle", chan |-> 0, data |-> <<>>, arg |-> 0]

\* op: the function that returned ("none" when the step returned nothing);
\* ret: its result; msg: the message or buffer it was given; sent: the
\* frames it handed to rpmsg_trysend; sres: what rpmsg_trysend answered;
\* handler: the receive handler that ran; trace: what the handler did, in
\* program order; copied: bytes put in the flip buffer; rd: the bytes of
\* the message that were read; arg: raise, or the payload size in force.
\* For probe, sres is what tty_port_register_device answered.  freed: the
\* transmit buffers that were freed.
NoOp == [op |-> "none", chan |-> 0, ret |-> 0, msg |-> <<>>, sent |-> <<>>,
         sres |-> 0, handler |-> "none", trace |-> <<>>, copied |-> 0,
         rd |-> {}, arg |-> 0, freed |-> 0]

Done(op, c, ret) == [NoOp EXCEPT !.op = op, !.chan = c, !.ret = ret]

\* FMC2_BCR(x): the control register of bank x
FMC2_BCR(x) == x * 8 + FMC2_BCR1

\* the controllers that share the FMC2 block: the EBI and its peers
Ctrl == 1..NumCtrl
EBI == 1

\* the registers that are followed: BCR of every bank, and PCSCNTR
Regs == {FMC2_BCR(x) : x \in 0..(FMC2_MAX_EBI_CE - 1)} \cup {FMC2_PCSCNTR}

\* The FMC2 block after stm32_fmc2_probe: fmc2 comes from devm_kzalloc and
\* the block from its reset, no controller is bound.
Fmc2Init ==
    /\ nb_ctrl_used = 0
    /\ regmap = [r \in Regs |-> {}]
    /\ fmc2_ctrl = [k \in Ctrl |-> [state |-> "unbound", pc |-> "idle",
                                to |-> "unbound"]]
    /\ ebi = [cs_assigned |-> {}, n |-> 0, ret |-> 0,
              bcr |-> [x \in 0..(FMC2_MAX_EBI_CE - 1) |-> {}],
              pcscntr |-> {}]

Init ==
    /\ Fmc2Init
    /\ st = [c \in Chan |-> "none"]
    /\ tty_idr = [i \in 0..(MAX_TTY_RPMSG - 1) |-> NULL]
    /\ id = [c \in Chan |-> 0]
    /\ cts = [c \in Chan |-> 0]
    /\ rpdev = [c \in Chan |-> NULL]
    /\ drvdata = [c \in Chan |-> NULL]
    /\ ttydev = [c \in Chan |-> FALSE]
    /\ tty = [c \in Chan |-> "closed"]
    /\ initialized = [c \in Chan |-> FALSE]
    /\ xmit_buf = [c \in Chan |-> FALSE]
    /\ flip = [c \in Chan |-> <<>>]
    /\ hup = [c \in Chan |-> FALSE]
    /\ rx = Idle
    /\ wr = Idle
    /\ dtr = Idle
    /\ applied = [c \in Chan |-> -1]
    /\ last = NoOp
    /\ fault = "none"

\* The port of channel c is allocated and not yet released.
Live(c) == st[c] \in {"p_alloc", "p_reg", "bound", "r_hup", "r_unreg"}

\* ---------------------------------------------------------------- registry
FreeIds == {i \in DOMAIN tty_idr : tty_idr[i] = NULL}

\* the highest free id is handed out
idr_alloc_highest(free) ==
    IF free = {} THEN -ENOSPC
    ELSE CHOOSE i \in free : \A j \in free : i >= j

\* idr_alloc over the ids that are free: the lowest of them, or -ENOSPC when
\* none is
idr_alloc_lowest(free) ==
    IF free = {} THEN -ENOSPC
    ELSE CHOOSE i \in free : \A j \in free : i <= j

\* idr_alloc(&tty_idr, cport, 0, MAX_TTY_RPMSG, GFP_KERNEL)
idr_alloc == idr_alloc_lowest(FreeIds)

\* a port that is born ready
kzalloc_cts_set(c) == 1

\* cport = kzalloc(sizeof(*cport), GFP_KERNEL): the port is zeroed, cts too
kzalloc_cts(c) == 0

\* rpmsg_tty_alloc_cport, with tty_port_init: the first step of probe.
\* kzalloc may fail (mem = "kzalloc"); idr_alloc may fail for lack of memory
\* (mem = "idr") as well as for lack of ids, and is then reported as -ENOSPC.
rpmsg_tty_alloc_cport(c, mem) ==
    /\ st[c] = "none"
    /\ IF mem = "kzalloc"
       THEN /\ last' = Done("probe", c, -ENOMEM)
            /\ UNCHANGED <<st, portvars>>
       ELSE IF mem = "idr" \/ idr_alloc < 0
       THEN /\ last' = Done("probe", c, -ENOSPC)
            /\ UNCHANGED <<st, portvars>>
       ELSE /\ tty_idr' = [tty_idr EXCEPT ![idr_alloc] = c]
            /\ id' = [id EXCEPT ![c] = idr_alloc]
            /\ cts' = [cts EXCEPT ![c] = kzalloc_cts(c)]
            /\ rpdev' = [rpdev EXCEPT ![c] = NULL]
            /\ applied' = [applied EXCEPT ![c] = -1]
            /\ flip' = [flip EXCEPT ![c] = <<>>]
            /\ initialized' = [initialized EXCEPT ![c] = FALSE]
            /\ xmit_buf' = [xmit_buf EXCEPT ![c] = FALSE]
            /\ st' = [st EXCEPT ![c] = "p_alloc"]
            /\ last' = NoOp
            /\ UNCHANGED <<drvdata, ttydev, tty, hup>>
    /\ UNCHANGED <<rx, wr, dtr, fault>>

\* the port is freed and its id stays in the registry
rpmsg_tty_release_cport_no_idr_remove(c) ==
    /\ tty_idr' = tty_idr
    /\ tty' = [tty EXCEPT ![c] = IF tty[c] = "closed" THEN "closed" ELSE "stale"]

\* rpmsg_tty_release_cport: idr_remove under idr_lock, then kfree.  A tty
\* session still bound to the port keeps its driver_data: it is stale.
rpmsg_tty_release_cport(c) ==
    /\ tty_idr' = [tty_idr EXCEPT ![id[c]] = NULL]
    /\ tty' = [tty EXCEPT ![c] = IF tty[c] = "closed" THEN "closed" ELSE "stale"]

\* the failed registration reported as a success
probe_err_dropped(err) == 0

\* ret = PTR_ERR(tty_dev); goto err_destroy; ... return ret;
probe_err(err) == err

\* probe, second step: tty_port_register_device, and on failure the
\* err_destroy path (tty_port_destroy, rpmsg_tty_release_cport); err is
\* what tty_port_register_device answered
rpmsg_tty_probe_register(c, err) ==
    /\ st[c] = "p_alloc"
    /\ IF err = 0
       THEN /\ ttydev' = [ttydev EXCEPT ![c] = TRUE]
            /\ st' = [st EXCEPT ![c] = "p_reg"]
            /\ last' = NoOp
            /\ UNCHANGED <<tty_idr, tty>>
       ELSE /\ rpmsg_tty_release_cport(c)
            /\ st' = [st EXCEPT ![c] = "none"]
            /\ last' = [Done("probe", c, probe_err(err)) EXCEPT !.sres = err]
            /\ UNCHANGED ttydev
    /\ UNCHANGED <<id, cts, rpdev, drvdata, initialized, xmit_buf, flip, hup,
                   applied, rx, wr, dtr, fault>>

\* probe, last step: cport->rpdev = rpdev; dev_set_drvdata; return 0
rpmsg_tty_probe(c) ==
    /\ st[c] = "p_reg"
    /\ rpdev' = [rpdev EXCEPT ![c] = c]
    /\ drvdata' = [drvdata EXCEPT ![c] = c]
    /\ st' = [st EXCEPT ![c] = "bound"]
    /\ last' = Done("probe", c, 0)
    /\ UNCHANGED <<tty_idr, id, cts, ttydev, tty, initialized, xmit_buf, flip,
                   hup, applied, rx, wr, dtr, fault>>

\* ------------------------------------------------------------------ remove
\* the hangup is requested whatever the state of the port
hangup_wanted_always(c) == TRUE

\* if (tty_port_initialized(&cport->port)) tty_port_tty_hangup(...), which
\* hangs up the tty the port has, if it has one
hangup_wanted(c) == initialized[c] /\ tty[c] = "open"

\* remove, first step: the port is found through the driver data; a hangup
\* is requested, not awaited, when the port is initialized
rpmsg_tty_remove_hangup(c) ==
    /\ st[c] = "bound"
    /\ hup' = [hup EXCEPT ![c] = hangup_wanted(c)]
    /\ st' = [st EXCEPT ![c] = "r_hup"]
    /\ last' = NoOp
    /\ UNCHANGED <<tty_idr, id, cts, rpdev, drvdata, ttydev, tty, initialized,
                   xmit_buf, flip, applied, rx, wr, dtr, fault>>

\* remove, second step: tty_unregister_device
rpmsg_tty_remove_unregister(c) ==
    /\ st[c] = "r_hup"
    /\ ttydev' = [ttydev EXCEPT ![c] = FALSE]
    /\ st' = [st EXCEPT ![c] = "r_unreg"]
    /\ last' = NoOp
    /\ UNCHANGED <<tty_idr, id, cts, rpdev, drvdata, tty, initialized,
                   xmit_buf, flip, hup, applied, rx, wr, dtr, fault>>

\* remove, last step: tty_port_destroy and rpmsg_tty_release_cport
rpmsg_tty_remove(c) ==
    /\ st[c] = "r_unreg"
    /\ rpmsg_tty_release_cport(c)
    /\ st' = [st EXCEPT ![c] = "r_done"]
    /\ last' = Done("remove", c, 0)
    /\ UNCHANGED <<id, cts, rpdev, drvdata, ttydev, initialized, xmit_buf,
                   flip, hup, applied, rx, wr, dtr, fault>>

\* The rpmsg bus, after remove has returned: the endpoint is destroyed once
\* the callback in flight on it has returned, and the device goes away with
\* its driver data.
rpmsg_dev_release(c) ==
    /\ st[c] = "r_done"
    /\ rx.chan # c
    /\ st' = [st EXCEPT ![c] = "none"]
    /\ drvdata' = [drvdata EXCEPT ![c] = NULL]
    /\ last' = NoOp
    /\ UNCHANGED <<tty_idr, id, cts, rpdev, ttydev, tty, initialized,
                   xmit_buf, flip, hup, applied, rx, wr, dtr, fault>>

\* ------------------------------------------------------------- tty session
\* rpmsg_tty_install: the port is looked up in the registry by tty->index
rpmsg_tty_install(i) == tty_idr[i]

\* tty_port_alloc_xmit_buf / tty_port_free_xmit_buf act on a buffer that is
\* there or not
rpmsg_tty_port_activate(c, ok) == [xmit_buf EXCEPT ![c] = xmit_buf[c] \/ ok]

rpmsg_tty_port_shutdown(c) == [xmit_buf EXCEPT ![c] = FALSE]

\* the buffer is freed, there or not
tty_port_free_xmit_buf_unchecked(c) == 1

\* tty_port_free_xmit_buf: the number of buffers handed to free_page, which
\* is called only for a buffer that is there
tty_port_free_xmit_buf(c) == IF xmit_buf[c] THEN 1 ELSE 0

\* open of /dev/ttyRPMSG<id>: install, then tty_port_open, which activates a
\* port that is not initialized; ok: the xmit buffer can be allocated
rpmsg_tty_open(c, ok) ==
    /\ ttydev[c]
    /\ tty[c] = "closed"
    /\ LET cport == rpmsg_tty_install(id[c]) IN
       IF cport = NULL
       THEN /\ last' = Done("open", c, -ENODEV)
            /\ UNCHANGED <<tty, initialized, xmit_buf>>
       ELSE IF ~initialized[cport] /\ ~ok
       THEN /\ last' = Done("open", c, -ENOMEM)
            /\ xmit_buf' = rpmsg_tty_port_activate(cport, FALSE)
            /\ UNCHANGED <<tty, initialized>>
       ELSE /\ last' = Done("open", c, 0)
            /\ xmit_buf' = IF initialized[cport] THEN xmit_buf
                           ELSE rpmsg_tty_port_activate(cport, TRUE)
            /\ initialized' = [initialized EXCEPT ![cport] = TRUE]
            /\ tty' = [tty EXCEPT ![cport] = "open"]
    /\ UNCHANGED <<st, tty_idr, id, cts, rpdev, drvdata, ttydev, flip, hup,
                   applied, rx, wr, dtr, fault>>

\* close of the last descriptor: tty_port_close shuts the port down
rpmsg_tty_close(c) ==
    /\ tty[c] = "open"
    /\ wr.chan # c /\ dtr.chan # c
    /\ xmit_buf' = rpmsg_tty_port_shutdown(c)
    /\ initialized' = [initialized EXCEPT ![c] = FALSE]
    /\ tty' = [tty EXCEPT ![c] = "closed"]
    /\ hup' = [hup EXCEPT ![c] = FALSE]
    /\ last' = [Done("close", c, 0) EXCEPT
                   !.freed = tty_port_free_xmit_buf(c)]
    /\ UNCHANGED <<st, tty_idr, id, cts, rpdev, drvdata, ttydev, flip,
                   applied, rx, wr, dtr, fault>>

\* the hangup work requested by remove runs: the session leaves the driver
tty_hangup(c) ==
    /\ hup[c]
    /\ wr.chan # c /\ dtr.chan # c
    /\ tty' = [tty EXCEPT ![c] = "closed"]
    /\ hup' = [hup EXCEPT ![c] = FALSE]
    /\ last' = NoOp
    /\ UNCHANGED <<st, tty_idr, id, cts, rpdev, drvdata, ttydev, initialized,
                   xmit_buf, flip, applied, rx, wr, dtr, fault>>

\* An operation of the session of channel c has a port to work on, or
\* faults on the released one.
Bound(c) == tty[c] \in {"open", "stale"}

\* port->ops->shutdown called by the tty layer for the port of the session
\* of channel c
rpmsg_tty_port_ops_shutdown(c) ==
    /\ Bound(c)
    /\ IF tty[c] = "stale"
       THEN /\ last' = [NoOp EXCEPT !.op = "shutdown", !.chan = c,
                                    !.handler = "fault"]
            /\ fault' = "use_after_free"
            /\ xmit_buf' = xmit_buf
       ELSE /\ xmit_buf' = rpmsg_tty_port_shutdown(c)
            /\ last' = [Done("shutdown", c, 0) EXCEPT
                           !.freed = tty_port_free_xmit_buf(c)]
            /\ fault' = fault
    /\ UNCHANGED <<st, tty_idr, id, cts, rpdev, drvdata, ttydev, tty,
                   initialized, flip, hup, applied, rx, wr, dtr>>

Fault(f, op, c, msg) ==
    /\ fault' = f
    /\ last' = [NoOp EXCEPT !.op = op, !.chan = c, !.msg = msg,
                            !.handler = "fault"]

\* ------------------------------------------------------------ control out
\* rpmsg_tty_write_control(tty, DATA_TERM_READY, values, n_value), called
\* as operation op of the session of channel c.  The control id written is
\* always DATA_TERM_READY.  A failed try-send is logged and turned into 0.
\* mem: kzalloc succeeds; sres: the answer of rpmsg_trysend.
\* the result of the try-send handed on to the caller as it is
write_control_ret_propagated(sres) == sres

\* if (ret < 0) { dev_dbg(...); ret = 0; }  return ret;
write_control_ret(sres) == IF sres < 0 THEN 0 ELSE sres

rpmsg_tty_write_control(op, c, arg, values, mem, sres) ==
    IF tty[c] = "stale"
    THEN Fault("use_after_free", op, c, <<>>)
    ELSE IF ~mem
    THEN /\ last' = [Done(op, c, -ENOMEM) EXCEPT !.arg = arg]
         /\ fault' = fault
    ELSE IF rpdev[c] = NULL
    THEN Fault("null_deref", op, c, <<>>)
    ELSE /\ last' = [NoOp EXCEPT
                       !.op = op, !.chan = c, !.arg = arg,
                       !.sent = << <<RPMSG_CTRL, DATA_TERM_READY>> \o values >>,
                       !.sres = sres,
                       !.ret = write_control_ret(sres)]
         /\ fault' = fault

\* throttle asks the remote side to go on
throttle_rts_set(c) == 1

\* u8 rts = 0;  Disable remote transmission
throttle_rts(c) == 0

\* u8 rts = 1;  Enable remote transmission
unthrottle_rts(c) == 1

rpmsg_tty_throttle(c, mem, sres) ==
    /\ Bound(c)
    /\ rpmsg_tty_write_control("throttle", c, 0, <<throttle_rts(c)>>, mem, sres)
    /\ UNCHANGED <<st, portvars, rx, wr, dtr>>

rpmsg_tty_unthrottle(c, mem, sres) ==
    /\ Bound(c)
    /\ rpmsg_tty_write_control("unthrottle", c, 1, <<unthrottle_rts(c)>>, mem,
                               sres)
    /\ UNCHANGED <<st, portvars, rx, wr, dtr>>

\* the flag is left alone by dtr_rts
dtr_rts_cts_unset(c, raise) == cts[c]

\* cport->cts = raise
dtr_rts_cts(c, raise) == raise

\* rpmsg_tty_dtr_rts, first step: cport->cts = raise
rpmsg_tty_dtr_rts(c, raise) ==
    /\ Bound(c)
    /\ dtr.pc = "idle"
    /\ IF tty[c] = "stale"
       THEN /\ Fault("use_after_free", "dtr_rts", c, <<>>)
            /\ UNCHANGED <<cts, applied, dtr>>
       ELSE /\ cts' = [cts EXCEPT ![c] = dtr_rts_cts(c, raise)]
            /\ applied' = [applied EXCEPT ![c] = raise]
            /\ dtr' = [Idle EXCEPT !.pc = "ctrl", !.chan = c, !.arg = raise]
            /\ last' = NoOp
            /\ fault' = fault
    /\ UNCHANGED <<st, tty_idr, id, rpdev, drvdata, ttydev, tty, initialized,
                   xmit_buf, flip, hup, rx, wr>>

\* rpmsg_tty_dtr_rts, second step: unthrottle when raised, else throttle
rpmsg_tty_dtr_rts_ctrl(c, mem, sres) ==
    /\ dtr.pc = "ctrl" /\ dtr.chan = c
    /\ IF dtr.arg # 0
       THEN rpmsg_tty_write_control("dtr_rts", c, dtr.arg,
                                    <<unthrottle_rts(c)>>, mem, sres)
       ELSE rpmsg_tty_write_control("dtr_rts", c, dtr.arg,
                                    <<throttle_rts(c)>>, mem, sres)
    /\ dtr' = Idle
    /\ UNCHANGED <<st, portvars, rx, wr>>

\* ---------------------------------------------------------------- data out
\* the gate inverted: the message is dropped when cts is set
write_gate_inverted(c) == cts[c] # 0

\* "If cts not set, the message is not sent": if (!cport->cts) return 0
write_gate_closed(c) == cts[c] = 0

\* rpmsg_tty_write, first step: the gate on cport->cts
rpmsg_tty_write(c, buf) ==
    /\ Bound(c)
    /\ wr.pc = "idle"
    /\ IF tty[c] = "stale"
       THEN /\ Fault("use_after_free", "write", c, buf)
            /\ wr' = wr
       ELSE IF write_gate_closed(c)
       THEN /\ last' = [Done("write", c, 0) EXCEPT !.msg = buf]
            /\ UNCHANGED <<wr, fault>>
       ELSE /\ wr' = [Idle EXCEPT !.pc = "send", !.chan = c, !.data = buf]
            /\ last' = NoOp
            /\ fault' = fault
    /\ UNCHANGED <<st, portvars, rx, dtr>>

\* the size without the min: len + cmd_sz
MsgSize_untruncated(len, msg_max_size) == len + SizeofPayload

\* unsigned int msg_size = min(len + cmd_sz, msg_max_size)
MsgSize(len, msg_max_size) == Min(len + SizeofPayload, msg_max_size)

\* the result of the try-send handed on to the caller as it is
write_send_ret_propagated(sres, n) == IF sres # 0 THEN sres ELSE n

\* if (ret) { dev_dbg(...); return 0; }  return msg_size - cmd_sz;
write_send_ret(sres, n) == IF sres # 0 THEN 0 ELSE n

\* rpmsg_tty_write, second step: size, allocate, frame, try-send.
\* M: the answer of rpmsg_get_buf_payload_size; mem: kzalloc succeeds;
\* sres: the answer of rpmsg_trysend.  kzalloc(0) gives ZERO_SIZE_PTR, and
\* the store of the type byte through it faults.
rpmsg_tty_write_send(c, M, mem, sres) ==
    /\ wr.pc = "send" /\ wr.chan = c
    /\ LET buf == wr.data
           msg_size == MsgSize(Len(buf), M)
           W(ret) == [Done("write", c, ret) EXCEPT !.msg = buf, !.arg = M]
       IN
       IF tty[c] = "stale"
       THEN Fault("use_after_free", "write", c, buf)
       ELSE IF rpdev[c] = NULL
       THEN Fault("null_deref", "write", c, buf)
       ELSE IF M < 0
       THEN last' = W(M) /\ fault' = fault
       ELSE IF msg_size = 0
       THEN Fault("zero_size_store", "write", c, buf)
       ELSE IF ~mem
       THEN last' = W(-ENOMEM) /\ fault' = fault
       ELSE /\ last' = [W(write_send_ret(sres, msg_size - SizeofPayload))
                        EXCEPT
                          !.sres = sres,
                          !.sent = << <<RPMSG_DATA>> \o
                                      Prefix(buf, msg_size - SizeofPayload) >>]
            /\ fault' = fault
    /\ wr' = Idle
    /\ UNCHANGED <<st, portvars, rx, dtr>>

\* rpmsg_tty_write_room; M: the answer of rpmsg_get_buf_payload_size
rpmsg_tty_write_room(c, M) ==
    /\ Bound(c)
    /\ IF tty[c] = "stale"
       THEN Fault("use_after_free", "write_room", c, <<>>)
       ELSE IF cts[c] = 0
       THEN last' = Done("write_room", c, 0) /\ fault' = fault
       ELSE IF rpdev[c] = NULL
       THEN Fault("null_deref", "write_room", c, <<>>)
       ELSE /\ last' = [Done("write_room", c, M - SizeofPayload)
                        EXCEPT !.arg = M]
            /\ fault' = fault
    /\ UNCHANGED <<st, portvars, rx, wr, dtr>>

\* ----------------------------------------------------------------- inbound
\* A read of byte i (counted from 1) of a received message; a read past the
\* end of the message yields whatever the receive buffer holds there.
ReadByte(msg, i) == IF i \in DOMAIN msg THEN {msg[i]} ELSE Byte

\* a Data frame may come without payload
cb_invalid_data_ok(msg) ==
    \/ Len(msg) < SizeofPayload
    \/ msg[1] >= NUM_RPMSG_TTY_TYPE
    \/ (msg[1] # RPMSG_DATA /\ Len(msg) <= SizeofPayload)

\* the type test off by one: rbuf->cmd > NUM_RPMSG_TTY_TYPE
cb_invalid_gt(msg) ==
    Len(msg) <= SizeofPayload \/ msg[1] > NUM_RPMSG_TTY_TYPE

\* the length test off by one: len < sizeof(*rbuf)
cb_invalid_lt(msg) ==
    Len(msg) < SizeofPayload \/ msg[1] >= NUM_RPMSG_TTY_TYPE

\* the test that guards the dispatch: len <= sizeof(*rbuf) ||
\* rbuf->cmd >= NUM_RPMSG_TTY_TYPE
cb_invalid(msg) ==
    Len(msg) <= SizeofPayload \/ msg[1] >= NUM_RPMSG_TTY_TYPE

\* the table rpmsg_tty_handler[]; an index past its end calls through
\* whatever follows the table
rpmsg_tty_handler(cmd) == IF cmd = RPMSG_DATA THEN "data"
                          ELSE IF cmd = RPMSG_CTRL THEN "ctrl"
                          ELSE "wild"

\* one port for the devices of all channels
dev_get_drvdata_shared(c) == drvdata[1]

\* dev_get_drvdata(&rpdev->dev), rpdev being the device of channel c
dev_get_drvdata(c) == drvdata[c]

\* rpmsg_tty_cb: the length and type checks, then the call through
\* rpmsg_tty_handler[rbuf->cmd]; the handler finds its port through the
\* driver data of the device.  rx.arg keeps that pointer.
rpmsg_tty_cb(c, msg) ==
    /\ st[c] # "none"
    /\ rx.pc = "idle"
    /\ IF cb_invalid(msg)
       THEN /\ last' = [Done("cb", c, -EINVAL) EXCEPT !.msg = msg, !.rd = {1}]
            /\ UNCHANGED <<rx, fault>>
       ELSE \E cmd \in ReadByte(msg, 1) :
            IF rpmsg_tty_handler(cmd) = "wild"
            THEN /\ Fault("wild_call", "cb", c, msg)
                 /\ rx' = rx
            ELSE /\ rx' = [pc |-> rpmsg_tty_handler(cmd), chan |-> c,
                           data |-> msg, arg |-> dev_get_drvdata(c)]
                 /\ last' = NoOp
                 /\ fault' = fault
    /\ UNCHANGED <<st, portvars, wr, dtr>>

\* What a handler does to the port it was given: nothing can be done to a
\* NULL port or to a released one.
PortFault(c) == IF rx.arg = NULL THEN "null_deref"
                ELSE IF st[c] = "r_done" THEN "use_after_free"
                ELSE "none"

\* every byte is taken, room or not
tty_insert_flip_string_all(len, room) == len

\* tty_insert_flip_string_fixed_flag(&cport->port, data, TTY_NORMAL, len):
\* the number of bytes copied, which is what the flip buffer has room for
tty_insert_flip_string_fixed_flag(len, room) == Min(len, room)

\* rpmsg_tty_data_handler(rpdev, &rbuf->data, len - 1), and the return 0 of
\* rpmsg_tty_cb.  tty_insert_flip_string_fixed_flag copies what fits.
rpmsg_tty_data_handler(c) ==
    /\ rx.pc = "data" /\ rx.chan = c
    /\ LET msg == rx.data
           data == Tail(msg)
           len == Len(msg) - SizeofPayload
           cport == IF rx.arg = NULL THEN c ELSE rx.arg
           copied == tty_insert_flip_string_fixed_flag(
                         len, TtyBufLimit - Len(flip[cport]))
           R == [Done("cb", c, 0) EXCEPT !.msg = msg, !.handler = "data"]
       IN
       IF len = 0
       THEN /\ last' = R
            /\ UNCHANGED <<flip, fault>>
       ELSE IF PortFault(c) # "none"
       THEN /\ Fault(PortFault(c), "cb", c, msg)
            /\ flip' = flip
       ELSE /\ flip' = [flip EXCEPT
                          ![cport] = flip[cport] \o Prefix(data, copied)]
            /\ last' = [R EXCEPT !.copied = copied,
                                 !.rd = 2..(1 + copied),
                                 !.trace = <<"insert", "push">>]
            /\ fault' = fault
    /\ rx' = Idle
    /\ UNCHANGED <<st, tty_idr, id, cts, rpdev, drvdata, ttydev, tty,
                   initialized, xmit_buf, hup, applied, wr, dtr>>

\* the length test off by one: len < sizeof(*ctrl)
ctrl_invalid_lt(len) == len < SizeofCtrl

\* the length test of the control handler: len <= sizeof(*ctrl)
ctrl_invalid(len) == len <= SizeofCtrl

\* the control id is not looked at
ctrl_any(ctrl) == TRUE

\* the control ids the handler knows: ctrl->ctrl == DATA_TERM_READY
ctrl_known(ctrl) == ctrl = DATA_TERM_READY

\* the flag takes the value byte as it is
ctrl_term_ready_raw(value) ==
    IF value = 0 THEN [cts |-> 0, trace |-> <<"cts=0">>]
    ELSE [cts |-> value, trace |-> <<"cts=1", "wakeup">>]

\* the writer is woken before the flag is set
ctrl_term_ready_wake_first(value) ==
    IF value = 0 THEN [cts |-> 0, trace |-> <<"cts=0">>]
    ELSE [cts |-> 1, trace |-> <<"wakeup", "cts=1">>]

\* "Update the CTS according to remote RTS": the new cts, and what is done
\* in program order
ctrl_term_ready(value) ==
    IF value = 0 THEN [cts |-> 0, trace |-> <<"cts=0">>]
    ELSE [cts |-> 1, trace |-> <<"cts=1", "wakeup">>]

\* The TerminalReady update a message carries on the wire, if it carries
\* one: -1, or the boolean of its value byte.
TerminalReady(msg) ==
    IF Len(msg) >= 3 /\ msg[1] = 1 /\ msg[2] = 0
    THEN (IF msg[3] = 0 THEN 0 ELSE 1)
    ELSE -1

\* rpmsg_tty_ctrl_handler(rpdev, &rbuf->data, len - 1), and the return 0 of
\* rpmsg_tty_cb.  ctrl->ctrl is byte 2 of the message, ctrl->values[0] is
\* byte 3; value is what the read of values[0] yields.
rpmsg_tty_ctrl_handler(c, value) ==
    /\ rx.pc = "ctrl" /\ rx.chan = c
    /\ LET msg == rx.data
           len == Len(msg) - SizeofPayload
           ctrl == msg[2]
           cport == IF rx.arg = NULL THEN c ELSE rx.arg
           upd == ctrl_term_ready(value)
           R == [Done("cb", c, 0) EXCEPT !.msg = msg, !.handler = "ctrl",
                                         !.rd = {2}]
       IN
       IF ctrl_invalid(len)
       THEN /\ last' = [R EXCEPT !.trace = <<"invalid">>]
            /\ UNCHANGED <<cts, fault>>
       ELSE IF ~ctrl_known(ctrl)
       THEN /\ last' = [R EXCEPT !.trace = <<"unknown">>]
            /\ UNCHANGED <<cts, fault>>
       ELSE /\ value \in ReadByte(msg, 3)
            /\ IF PortFault(c) # "none"
               THEN /\ Fault(PortFault(c), "cb", c, msg)
                    /\ cts' = cts
               ELSE /\ cts' = [cts EXCEPT ![cport] = upd.cts]
                    /\ last' = [R EXCEPT !.rd = {2, 3}, !.trace = upd.trace]
                    /\ fault' = fault
    /\ applied' = IF fault' = "none" /\ TerminalReady(rx.data) # -1
                  THEN [applied EXCEPT ![IF rx.arg = NULL THEN c ELSE rx.arg] =
                                          TerminalReady(rx.data)]
                  ELSE applied
    /\ rx' = Idle
    /\ UNCHANGED <<st, tty_idr, id, rpdev, drvdata, ttydev, tty, initialized,
                   xmit_buf, flip, hup, wr, dtr>>

\* What the receive path makes of a message: the handler it is given to and
\* the bytes after the type byte that the handler works on, or "invalid"
\* when rpmsg_tty_cb or the control handler refuses it.
rpmsg_tty_decode(msg) ==
    IF cb_invalid(msg)
    THEN [kind |-> "invalid", payload |-> <<>>]
    ELSE IF /\ rpmsg_tty_handler(msg[1]) = "ctrl"
            /\ ctrl_invalid(Len(msg) - SizeofPayload)
    THEN [kind |-> "invalid", payload |-> <<>>]
    ELSE [kind |-> rpmsg_tty_handler(msg[1]), payload |-> Tail(msg)]

\* the line discipline takes what the flip buffer holds
flush_to_ldisc(c) ==
    /\ flip[c] # <<>>
    /\ tty[c] = "open"
    /\ flip' = [flip EXCEPT ![c] = <<>>]
    /\ last' = NoOp
    /\ UNCHANGED <<st, tty_idr, id, cts, rpdev, drvdata, ttydev, tty,
                   initialized, xmit_buf, hup, applied, rx, wr, dtr, fault>>

\* ----------------------------------------------------------- specification
\* the channel Spec follows
PortChans == {1}

\* no receive callback, probe or remove is under way
Quiet == /\ rx.pc = "idle"
         /\ \A c \in Chan : st[c] \in {"none", "bound", "r_done"}

Next ==
    /\ fault = "none"
    /\ UNCHANGED fmc2vars
    /\ \E c \in PortChans :
          \/ \E mem \in {"ok", "kzalloc", "idr"} :
                Quiet /\ rpmsg_tty_alloc_cport(c, mem)
          \/ \E err \in RegisterResults : rpmsg_tty_probe_register(c, err)
          \/ rpmsg_tty_probe(c)
          \/ Quiet /\ rpmsg_tty_remove_hangup(c)
          \/ rpmsg_tty_remove_unregister(c)
          \/ rpmsg_tty_remove(c)
          \/ Quiet /\ rpmsg_dev_release(c)
          \/ \E ok \in BOOLEAN : Quiet /\ rpmsg_tty_open(c, ok)
          \/ Quiet /\ rpmsg_tty_close(c)
          \/ Quiet /\ tty_hangup(c)
          \/ \E mem \in BOOLEAN, sres \in SendResults :
                Quiet /\ rpmsg_tty_throttle(c, mem, sres)
          \/ \E mem \in BOOLEAN, sres \in SendResults :
                Quiet /\ rpmsg_tty_unthrottle(c, mem, sres)
          \/ \E raise \in {0, 1} : Quiet /\ rpmsg_tty_dtr_rts(c, raise)
          \/ \E mem \in BOOLEAN, sres \in SendResults :
                Quiet /\ rpmsg_tty_dtr_rts_ctrl(c, mem, sres)
          \/ \E buf \in WriteBufs : Quiet /\ rpmsg_tty_write(c, buf)
          \/ \E M \in PayloadSizes, mem \in BOOLEAN, sres \in SendResults :
                Quiet /\ rpmsg_tty_write_send(c, M, mem, sres)
          \/ \E M \in PayloadSizes : Quiet /\ rpmsg_tty_write_room(c, M)
          \/ \E msg \in Msgs : Quiet /\ rpmsg_tty_cb(c, msg)
          \/ rpmsg_tty_data_handler(c)
          \/ \E value \in Byte : rpmsg_tty_ctrl_handler(c, value)
          \/ Quiet /\ flush_to_ldisc(c)

Spec == Init /\ [][Next]_vars

\* ------------------------------------------------------------ the registry
\* The channels RegSpec has: one more than the registry has ids.
RegChan == 1..(MAX_TTY_RPMSG + 1)

\* The channels that come and go in RegSpec: the holders of the lowest and
\* of the highest id, and the spare one; the others stay bound.
RegMovers == {1, MAX_TTY_RPMSG, MAX_TTY_RPMSG + 1}

\* The registry full: channels 1..MAX_TTY_RPMSG were probed in this order
\* and no tty is open.
RegInit ==
    /\ Fmc2Init
    /\ st = [c \in RegChan |-> IF c <= MAX_TTY_RPMSG THEN "bound" ELSE "none"]
    /\ tty_idr = [i \in 0..(MAX_TTY_RPMSG - 1) |-> i + 1]
    /\ id = [c \in RegChan |-> IF c <= MAX_TTY_RPMSG THEN c - 1 ELSE 0]
    /\ cts = [c \in RegChan |-> 0]
    /\ rpdev = [c \in RegChan |-> IF c <= MAX_TTY_RPMSG THEN c ELSE NULL]
    /\ drvdata = [c \in RegChan |-> IF c <= MAX_TTY_RPMSG THEN c ELSE NULL]
    /\ ttydev = [c \in RegChan |-> c <= MAX_TTY_RPMSG]
    /\ tty = [c \in RegChan |-> "closed"]
    /\ initialized = [c \in RegChan |-> FALSE]
    /\ xmit_buf = [c \in RegChan |-> FALSE]
    /\ flip = [c \in RegChan |-> <<>>]
    /\ hup = [c \in RegChan |-> FALSE]
    /\ rx = Idle
    /\ wr = Idle
    /\ dtr = Idle
    /\ applied = [c \in RegChan |-> -1]
    /\ last = NoOp
    /\ fault = "none"

\* probe and remove of the channels that come and go, each step of one
\* interleaved with the steps of the others
RegNext ==
    /\ fault = "none"
    /\ UNCHANGED fmc2vars
    /\ \E c \in RegMovers :
          \/ \E mem \in {"ok", "kzalloc", "idr"} : rpmsg_tty_alloc_cport(c, mem)
          \/ \E err \in RegisterResults : rpmsg_tty_probe_register(c, err)
          \/ rpmsg_tty_probe(c)
          \/ rpmsg_tty_remove_hangup(c)
          \/ rpmsg_tty_remove_unregister(c)
          \/ rpmsg_tty_remove(c)
          \/ rpmsg_dev_release(c)

RegSpec == RegInit /\ [][RegNext]_vars

\* --------------------------------------------- every context on its own
\* the datagrams RaceSpec draws from
RaceMsgs == {<<RPMSG_DATA>>, <<RPMSG_DATA, 1>>, <<RPMSG_DATA, 1, 2>>,
             <<RPMSG_CTRL, DATA_TERM_READY>>,
             <<RPMSG_CTRL, DATA_TERM_READY, 0>>,
             <<RPMSG_CTRL, DATA_TERM_READY, 1>>}
\* the buffers RaceSpec writes: none, one that fits, one that is cut
RaceBufs == {<<>>, <<1>>, <<1, 2, 1>>}

\* The operations of one channel with nothing to hold them apart: the
\* receive callback, probe and remove, the tty session and the writer run
\* as the contexts they are, and each cut of an operation is a place where
\* the others run.
RaceNext ==
    /\ fault = "none"
    /\ UNCHANGED fmc2vars
    /\ \E c \in PortChans :
          \/ \E mem \in {"ok", "kzalloc", "idr"} : rpmsg_tty_alloc_cport(c, mem)
          \/ \E err \in RegisterResults : rpmsg_tty_probe_register(c, err)
          \/ rpmsg_tty_probe(c)
          \/ rpmsg_tty_remove_hangup(c)
          \/ rpmsg_tty_remove_unregister(c)
          \/ rpmsg_tty_remove(c)
          \/ rpmsg_dev_release(c)
          \/ \E ok \in BOOLEAN : rpmsg_tty_open(c, ok)
          \/ rpmsg_tty_close(c)
          \/ rpmsg_tty_port_ops_shutdown(c)
          \/ tty_hangup(c)
          \/ \E mem \in BOOLEAN, sres \in SendResults :
                rpmsg_tty_throttle(c, mem, sres)
          \/ \E mem \in BOOLEAN, sres \in SendResults :
                rpmsg_tty_unthrottle(c, mem, sres)
          \/ \E raise \in {0, 1} : rpmsg_tty_dtr_rts(c, raise)
          \/ \E mem \in BOOLEAN, sres \in SendResults :
                rpmsg_tty_dtr_rts_ctrl(c, mem, sres)
          \/ \E buf \in RaceBufs : rpmsg_tty_write(c, buf)
          \/ \E M \in PayloadSizes, mem \in BOOLEAN, sres \in SendResults :
                rpmsg_tty_write_send(c, M, mem, sres)
          \/ \E M \in PayloadSizes : rpmsg_tty_write_room(c, M)
          \/ \E msg \in RaceMsgs : rpmsg_tty_cb(c, msg)
          \/ rpmsg_tty_data_handler(c)
          \/ \E value \in Byte : rpmsg_tty_ctrl_handler(c, value)
          \/ flush_to_ldisc(c)

RaceSpec == Init /\ [][RaceNext]_vars

\* The writer that passed the gate goes on to its send.
WriteSend ==
    /\ fault = "none"
    /\ UNCHANGED fmc2vars
    /\ \E c \in PortChans, M \in PayloadSizes, mem \in BOOLEAN,
          sres \in SendResults : rpmsg_tty_write_send(c, M, mem, sres)

\* RaceSpec with the writer scheduled: it is not held back for ever.
FairSpec == RaceSpec /\ WF_vars(WriteSend)

\* ------------------------------------------------------------- two ports
\* the datagrams IsoSpec draws from: the four kinds of valid and refused
\* frames
IsoMsgs == {<<RPMSG_DATA, 1>>, <<NUM_RPMSG_TTY_TYPE, 1>>,
            <<RPMSG_CTRL, DATA_TERM_READY>>,
            <<RPMSG_CTRL, DATA_TERM_READY, 0>>,
            <<RPMSG_CTRL, DATA_TERM_READY, 1>>}

\* no operation is under way on any channel
IsoQuiet == Quiet /\ wr.pc = "idle" /\ dtr.pc = "idle"

\* the two channels IsoSpec follows
IsoChans == {1, 2}

\* The operations of the two channels, one operation at a time: an
\* operation that has begun on one channel runs to its end before the next
\* one begins, on this channel or on the other.
IsoNext ==
    /\ fault = "none"
    /\ UNCHANGED fmc2vars
    /\ \E c \in IsoChans :
          \/ \E mem \in {"ok", "kzalloc", "idr"} :
                IsoQuiet /\ rpmsg_tty_alloc_cport(c, mem)
          \/ \E err \in RegisterResults : rpmsg_tty_probe_register(c, err)
          \/ rpmsg_tty_probe(c)
          \/ IsoQuiet /\ rpmsg_tty_remove_hangup(c)
          \/ rpmsg_tty_remove_unregister(c)
          \/ rpmsg_tty_remove(c)
          \/ IsoQuiet /\ rpmsg_dev_release(c)
          \/ \E ok \in BOOLEAN : IsoQuiet /\ rpmsg_tty_open(c, ok)
          \/ IsoQuiet /\ rpmsg_tty_close(c)
          \/ IsoQuiet /\ tty_hangup(c)
          \/ \E mem \in BOOLEAN, sres \in SendResults :
                IsoQuiet /\ rpmsg_tty_throttle(c, mem, sres)
          \/ \E mem \in BOOLEAN, sres \in SendResults :
                IsoQuiet /\ rpmsg_tty_unthrottle(c, mem, sres)
          \/ \E raise \in {0, 1} : IsoQuiet /\ rpmsg_tty_dtr_rts(c, raise)
          \/ \E mem \in BOOLEAN, sres \in SendResults :
                rpmsg_tty_dtr_rts_ctrl(c, mem, sres)
          \/ \E buf \in RaceBufs : IsoQuiet /\ rpmsg_tty_write(c, buf)
          \/ \E M \in PayloadSizes, mem \in BOOLEAN, sres \in SendResults :
                rpmsg_tty_write_send(c, M, mem, sres)
          \/ \E msg \in IsoMsgs : IsoQuiet /\ rpmsg_tty_cb(c, msg)
          \/ rpmsg_tty_data_handler(c)
          \/ \E value \in Byte : rpmsg_tty_ctrl_handler(c, value)

IsoSpec == Init /\ [][IsoNext]_vars

\* ------------------------------------------- a peer without control frames
\* the datagrams of a remote side that knows RPMSG_DATA only: the type
\* alone, and with one and with two bytes of data
DataMsgs == {msg \in RaceMsgs : msg[1] = RPMSG_DATA}

\* Next for a remote side that sends Data frames and no Control frame: the
\* control handler is never called.
PeerNext ==
    /\ fault = "none"
    /\ UNCHANGED fmc2vars
    /\ \E c \in PortChans :
          \/ \E mem \in {"ok", "kzalloc", "idr"} :
                Quiet /\ rpmsg_tty_alloc_cport(c, mem)
          \/ \E err \in RegisterResults : rpmsg_tty_probe_register(c, err)
          \/ rpmsg_tty_probe(c)
          \/ Quiet /\ rpmsg_tty_remove_hangup(c)
          \/ rpmsg_tty_remove_unregister(c)
          \/ rpmsg_tty_remove(c)
          \/ Quiet /\ rpmsg_dev_release(c)
          \/ \E ok \in BOOLEAN : Quiet /\ rpmsg_tty_open(c, ok)
          \/ Quiet /\ rpmsg_tty_close(c)
          \/ Quiet /\ tty_hangup(c)
          \/ \E mem \in BOOLEAN, sres \in SendResults :
                Quiet /\ rpmsg_tty_throttle(c, mem, sres)
          \/ \E mem \in BOOLEAN, sres \in SendResults :
                Quiet /\ rpmsg_tty_unthrottle(c, mem, sres)
          \/ \E raise \in {0, 1} : Quiet /\ rpmsg_tty_dtr_rts(c, raise)
          \/ \E mem \in BOOLEAN, sres \in SendResults :
                Quiet /\ rpmsg_tty_dtr_rts_ctrl(c, mem, sres)
          \/ \E buf \in RaceBufs : Quiet /\ rpmsg_tty_write(c, buf)
          \/ \E M \in PayloadSizes, mem \in BOOLEAN, sres \in SendResults :
                Quiet /\ rpmsg_tty_write_send(c, M, mem, sres)
          \/ \E M \in PayloadSizes : Quiet /\ rpmsg_tty_write_room(c, M)
          \/ \E msg \in DataMsgs : Quiet /\ rpmsg_tty_cb(c, msg)
          \/ rpmsg_tty_data_handler(c)
          \/ Quiet /\ flush_to_ldisc(c)

PeerSpec == Init /\ [][PeerNext]_vars

\* ----------------------------------------------------------- the FMC2 block
\* the tty driver's state, which the FMC2 controllers leave alone
ttyvars == <<st, portvars, rx, wr, dtr, fault>>

\* the reg values the device tree gives to the children of the EBI node:
\* the first and the last bank, and the two values next to them
CsValues == {0, FMC2_MAX_EBI_CE - 1, FMC2_MAX_EBI_CE, FMC2_MAX_EBI_CE + 1}

\* regmap_update_bits(map, reg, mask, val)
regmap_update_bits(map, reg, mask, val) ==
    [map EXCEPT ![reg] = (@ \ mask) \cup val]

\* controller k has ended its call and is in state s
Ended(k, s) == [fmc2_ctrl EXCEPT ![k] = [state |-> s, pc |-> "idle", to |-> s]]

\* stm32_fmc2_enable up to atomic_inc_return: the caller goes on to set
\* FMC2EN when it has got 1, and is in state `to' when enable has returned.
stm32_fmc2_enable(k, to) ==
    /\ nb_ctrl_used' = nb_ctrl_used + 1
    /\ fmc2_ctrl' = IF nb_ctrl_used + 1 = 1
               THEN [fmc2_ctrl EXCEPT ![k].pc = "enable", ![k].to = to]
               ELSE Ended(k, to)
    /\ last' = [Done("stm32_fmc2_enable", k, 0)
                   EXCEPT !.arg = nb_ctrl_used + 1]

\* stm32_fmc2_enable: regmap_update_bits(FMC2_BCR1, FMC2EN, FMC2EN)
stm32_fmc2_enable_update_bits(k) ==
    /\ fmc2_ctrl[k].pc = "enable"
    /\ regmap' = regmap_update_bits(regmap, FMC2_BCR1, {FMC2_BCR1_FMC2EN},
                                    {FMC2_BCR1_FMC2EN})
    /\ fmc2_ctrl' = Ended(k, fmc2_ctrl[k].to)
    /\ last' = [Done("stm32_fmc2_enable", k, 0) EXCEPT !.rd = {FMC2_BCR1}]
    /\ UNCHANGED <<nb_ctrl_used, ebi>>

\* stm32_fmc2_disable up to atomic_dec_and_test
stm32_fmc2_disable(k, to) ==
    /\ nb_ctrl_used > -MaxUnderflow
    /\ nb_ctrl_used' = nb_ctrl_used - 1
    /\ fmc2_ctrl' = IF nb_ctrl_used - 1 = 0
               THEN [fmc2_ctrl EXCEPT ![k].pc = "disable", ![k].to = to]
               ELSE Ended(k, to)
    /\ last' = [Done("stm32_fmc2_disable", k, 0)
                   EXCEPT !.arg = nb_ctrl_used - 1]

\* stm32_fmc2_disable: regmap_update_bits(FMC2_BCR1, FMC2EN, 0)
stm32_fmc2_disable_update_bits(k) ==
    /\ fmc2_ctrl[k].pc = "disable"
    /\ regmap' = regmap_update_bits(regmap, FMC2_BCR1, {FMC2_BCR1_FMC2EN},
                                    {})
    /\ fmc2_ctrl' = Ended(k, fmc2_ctrl[k].to)
    /\ last' = [Done("stm32_fmc2_disable", k, 0) EXCEPT !.rd = {FMC2_BCR1}]
    /\ UNCHANGED <<nb_ctrl_used, ebi>>

\* probe of a peer of the EBI (the NAND controller): fmc2->enable(fmc2)
fmc2_peer_probe(k) ==
    /\ k # EBI /\ fmc2_ctrl[k].state = "unbound" /\ fmc2_ctrl[k].pc = "idle"
    /\ stm32_fmc2_enable(k, "active")
    /\ UNCHANGED <<regmap, ebi>>

\* remove of a peer: fmc2->disable(fmc2)
fmc2_peer_remove(k) ==
    /\ k # EBI /\ fmc2_ctrl[k].state = "active" /\ fmc2_ctrl[k].pc = "idle"
    /\ stm32_fmc2_disable(k, "unbound")
    /\ UNCHANGED <<regmap, ebi>>

\* suspend of a peer: fmc2->disable(fmc2)
fmc2_peer_suspend(k) ==
    /\ k # EBI /\ fmc2_ctrl[k].state = "active" /\ fmc2_ctrl[k].pc = "idle"
    /\ stm32_fmc2_disable(k, "suspended")
    /\ UNCHANGED <<regmap, ebi>>

\* resume of a peer: fmc2->enable(fmc2)
fmc2_peer_resume(k) ==
    /\ k # EBI /\ fmc2_ctrl[k].state = "suspended" /\ fmc2_ctrl[k].pc = "idle"
    /\ stm32_fmc2_enable(k, "active")
    /\ UNCHANGED <<regmap, ebi>>

\* stm32_fmc2_ebi_set_bank(fmc2, cs, enable)
stm32_fmc2_ebi_set_bank(map, cs, enable) ==
    regmap_update_bits(map, FMC2_BCR(cs), {FMC2_BCR_MBKEN},
                       IF enable THEN {FMC2_BCR_MBKEN} ELSE {})

\* the EBI has returned from probe with ret, before it was bound
EbiOut(ret) ==
    /\ fmc2_ctrl' = [fmc2_ctrl EXCEPT ![EBI].pc = "out"]
    /\ ebi' = [ebi EXCEPT !.ret = ret]

\* stm32_fmc2_ebi_probe up to parse_dt: devm_kzalloc of ebi and
\* clk_prepare_enable, either of which may fail.
stm32_fmc2_ebi_probe(mem, clk) ==
    /\ fmc2_ctrl[EBI].state = "unbound" /\ fmc2_ctrl[EBI].pc = "idle"
    /\ IF ~mem
       THEN /\ last' = Done("stm32_fmc2_ebi_probe", EBI, -ENOMEM)
            /\ UNCHANGED <<fmc2_ctrl, ebi>>
       ELSE /\ ebi' = [ebi EXCEPT !.cs_assigned = {}, !.n = 0, !.ret = 0]
            /\ IF ~clk
               THEN /\ last' = Done("stm32_fmc2_ebi_probe", EBI, -EINVAL)
                    /\ UNCHANGED fmc2_ctrl
               ELSE /\ last' = NoOp
                    /\ fmc2_ctrl' = [fmc2_ctrl EXCEPT ![EBI].pc = "parse_dt"]
    /\ UNCHANGED <<nb_ctrl_used, regmap>>

\* if (cs > FMC2_MAX_EBI_CE)
cs_invalid(cs) == cs > FMC2_MAX_EBI_CE

\* stm32_fmc2_ebi_parse_dt, one child of the node: its reg property is cs
\* (rd: the property can be read), and stm32_fmc2_ebi_setup_cs disables
\* the bank, sets its properties (setup: all of them are accepted) and
\* enables the bank.
stm32_fmc2_ebi_parse_dt(cs, rd, setup) ==
    /\ fmc2_ctrl[EBI].pc = "parse_dt" /\ ebi.n < MaxChildren
    /\ IF ~rd \/ cs_invalid(cs) \/ cs \in ebi.cs_assigned
       THEN /\ EbiOut(-EINVAL)
            /\ last' = [Done("stm32_fmc2_ebi_parse_dt", EBI, -EINVAL)
                           EXCEPT !.arg = cs]
            /\ UNCHANGED regmap
       ELSE IF ~setup
       THEN /\ EbiOut(-EINVAL)
            /\ regmap' = stm32_fmc2_ebi_set_bank(regmap, cs, FALSE)
            /\ last' = [Done("stm32_fmc2_ebi_parse_dt", EBI, -EINVAL)
                           EXCEPT !.arg = cs, !.rd = {FMC2_BCR(cs)}]
       ELSE /\ regmap' = stm32_fmc2_ebi_set_bank(regmap, cs, TRUE)
            /\ ebi' = [ebi EXCEPT !.cs_assigned = @ \cup {cs}, !.n = @ + 1]
            /\ last' = [Done("stm32_fmc2_ebi_parse_dt", EBI, 0)
                           EXCEPT !.arg = cs, !.rd = {FMC2_BCR(cs)}]
            /\ UNCHANGED fmc2_ctrl
    /\ UNCHANGED nb_ctrl_used

\* stm32_fmc2_ebi_parse_dt after the last child: -ENODEV without a child,
\* else what of_platform_default_populate answers.
stm32_fmc2_ebi_parse_dt_end(populate) ==
    /\ fmc2_ctrl[EBI].pc = "parse_dt"
    /\ IF ebi.n = 0
       THEN /\ EbiOut(-ENODEV)
            /\ last' = Done("stm32_fmc2_ebi_parse_dt", EBI, -ENODEV)
       ELSE IF populate # 0
       THEN /\ EbiOut(populate)
            /\ last' = Done("stm32_fmc2_ebi_parse_dt", EBI, populate)
       ELSE /\ fmc2_ctrl' = [fmc2_ctrl EXCEPT ![EBI].pc = "save"]
            /\ last' = Done("stm32_fmc2_ebi_parse_dt", EBI, 0)
            /\ UNCHANGED ebi
    /\ UNCHANGED <<nb_ctrl_used, regmap>>

\* the banks stm32_fmc2_ebi_disable_banks goes through
DisabledBanks == {cs \in 0..(FMC2_MAX_EBI_CE - 1) : cs \in ebi.cs_assigned}

\* stm32_fmc2_ebi_disable_banks(fmc2, ebi)
stm32_fmc2_ebi_disable_banks(map) ==
    [r \in Regs |->
        IF \E cs \in DisabledBanks : r = FMC2_BCR(cs)
        THEN map[r] \ {FMC2_BCR_MBKEN} ELSE map[r]]

\* stm32_fmc2_ebi_probe, label out: the banks are disabled, probe returns
\* the error.
stm32_fmc2_ebi_probe_out ==
    /\ fmc2_ctrl[EBI].pc = "out"
    /\ regmap' = stm32_fmc2_ebi_disable_banks(regmap)
    /\ fmc2_ctrl' = Ended(EBI, "unbound")
    /\ last' = [Done("stm32_fmc2_ebi_probe", EBI, ebi.ret)
                   EXCEPT !.rd = {FMC2_BCR(cs) : cs \in DisabledBanks}]
    /\ UNCHANGED <<nb_ctrl_used, ebi>>

\* stm32_fmc2_ebi_probe after parse_dt: the test of the NWAIT signal
\* (nwait: another controller uses it already), then
\* stm32_fmc2_ebi_save_setup.
stm32_fmc2_ebi_save_setup(nwait) ==
    /\ fmc2_ctrl[EBI].pc = "save"
    /\ IF nwait
       THEN EbiOut(-EINVAL)
       ELSE /\ ebi' = [ebi EXCEPT
                         !.bcr = [x \in 0..(FMC2_MAX_EBI_CE - 1) |->
                                     regmap[FMC2_BCR(x)]],
                         !.pcscntr = regmap[FMC2_PCSCNTR]]
            /\ fmc2_ctrl' = [fmc2_ctrl EXCEPT ![EBI].pc = "call_enable"]
    /\ last' = NoOp
    /\ UNCHANGED <<nb_ctrl_used, regmap>>

\* fmc2->enable(fmc2) of stm32_fmc2_ebi_probe and of stm32_fmc2_ebi_resume
stm32_fmc2_ebi_enable ==
    /\ fmc2_ctrl[EBI].pc = "call_enable"
    /\ stm32_fmc2_enable(EBI, "active")
    /\ UNCHANGED <<regmap, ebi>>

\* stm32_fmc2_ebi_remove: the banks are disabled, then fmc2->disable(fmc2)
stm32_fmc2_ebi_remove ==
    /\ fmc2_ctrl[EBI].state = "active" /\ fmc2_ctrl[EBI].pc = "idle"
    /\ regmap' = stm32_fmc2_ebi_disable_banks(regmap)
    /\ stm32_fmc2_disable(EBI, "unbound")
    /\ UNCHANGED ebi

\* stm32_fmc2_ebi_suspend: fmc2->disable(fmc2).  It also runs on a device
\* whose resume has failed.
stm32_fmc2_ebi_suspend ==
    /\ fmc2_ctrl[EBI].state \in {"active", "resume_failed"}
    /\ fmc2_ctrl[EBI].pc = "idle"
    /\ stm32_fmc2_disable(EBI, "suspended")
    /\ UNCHANGED <<regmap, ebi>>

\* stm32_fmc2_ebi_set_setup(fmc2, ebi)
stm32_fmc2_ebi_set_setup(map) ==
    [r \in Regs |->
        IF r = FMC2_PCSCNTR THEN ebi.pcscntr
        ELSE ebi.bcr[CHOOSE x \in 0..(FMC2_MAX_EBI_CE - 1) : r = FMC2_BCR(x)]]

\* stm32_fmc2_ebi_resume up to fmc2->enable: clk_prepare_enable may fail,
\* and then resume returns; else the saved registers are written back.
stm32_fmc2_ebi_resume(clk) ==
    /\ fmc2_ctrl[EBI].state = "suspended" /\ fmc2_ctrl[EBI].pc = "idle"
    /\ IF ~clk
       THEN /\ fmc2_ctrl' = Ended(EBI, "resume_failed")
            /\ last' = Done("stm32_fmc2_ebi_resume", EBI, -EINVAL)
            /\ UNCHANGED regmap
       ELSE /\ regmap' = stm32_fmc2_ebi_set_setup(regmap)
            /\ fmc2_ctrl' = [fmc2_ctrl EXCEPT ![EBI].pc = "call_enable"]
            /\ last' = [NoOp EXCEPT !.rd = Regs]
    /\ UNCHANGED <<nb_ctrl_used, ebi>>

\* The controllers of one FMC2 block, every step of one interleaved with
\* the steps of the others.
Fmc2Next ==
    /\ fault = "none"
    /\ UNCHANGED ttyvars
    /\ \/ \E k \in Ctrl :
             \/ fmc2_peer_probe(k)
             \/ fmc2_peer_remove(k)
             \/ fmc2_peer_suspend(k)
             \/ fmc2_peer_resume(k)
             \/ stm32_fmc2_enable_update_bits(k)
             \/ stm32_fmc2_disable_update_bits(k)
       \/ \E mem \in BOOLEAN, clk \in BOOLEAN : stm32_fmc2_ebi_probe(mem, clk)
       \/ \E cs \in CsValues, rd \in BOOLEAN, setup \in BOOLEAN :
             stm32_fmc2_ebi_parse_dt(cs, rd, setup)
       \/ \E populate \in {0, -ENOMEM} : stm32_fmc2_ebi_parse_dt_end(populate)
       \/ stm32_fmc2_ebi_probe_out
       \/ \E nwait \in BOOLEAN : stm32_fmc2_ebi_save_setup(nwait)
       \/ stm32_fmc2_ebi_enable
       \/ stm32_fmc2_ebi_remove
       \/ stm32_fmc2_ebi_suspend
       \/ \E clk \in BOOLEAN : stm32_fmc2_ebi_resume(clk)

Fmc2Spec == Init /\ [][Fmc2Next]_vars

\* ------------------------------------------------------------------ claims
\* The steps of a behaviour, told by what they do to the contexts.
\* rpmsg_tty_cb was called on channel c, with message CbMsg
CalledCb(c) ==
    /\ rx.pc = "idle"
    /\ \/ rx'.pc # "idle" /\ rx'.chan = c
       \/ last'.op = "cb" /\ last'.chan = c

CbMsg == IF rx'.pc # "idle" THEN rx'.data ELSE last'.msg

\* the handler of the message rx.data ran on channel c and returned
RanHandler(c) == rx.pc # "idle" /\ rx.chan = c /\ rx'.pc = "idle"

\* rpmsg_tty_write was called on channel c, with buffer WriteBuf
CalledWrite(c) ==
    /\ wr.pc = "idle"
    /\ \/ wr'.pc = "send" /\ wr'.chan = c
       \/ last'.op = "write" /\ last'.chan = c

WriteBuf == IF wr'.pc = "send" THEN wr'.data ELSE last'.msg

\* the write of wr.data that had passed the gate on channel c returned
SentWrite(c) == wr.pc = "send" /\ wr.chan = c /\ wr'.pc = "idle"

Wakes(trace) == \E i \in DOMAIN trace : trace[i] = "wakeup"

WakesAfterSet(trace) ==
    \E i, j \in DOMAIN trace :
        i < j /\ trace[i] = "cts=1" /\ trace[j] = "wakeup"

\* C1: a write on a port whose cts flag is 0 returns 0 and hands no frame
\* to the transport, whatever the length of the buffer, and leaves the flag
\* and the rest of the port as they were.
C1_OutboundGate ==
    [][\A c \in Chan :
         (CalledWrite(c) /\ tty[c] = "open" /\ cts[c] = 0)
            => /\ last'.op = "write" /\ last'.ret = 0 /\ last'.sent = <<>>
               /\ last'.msg = WriteBuf
               /\ wr'.pc = "idle"
               /\ fault' = "none"
               /\ UNCHANGED <<st, portvars>>]_vars

C1_Witness ==
    /\ last.op = "write" /\ last.ret = 0 /\ last.sent = <<>>
    /\ Len(last.msg) = MaxWriteLen
    /\ cts[last.chan] = 0 /\ tty[last.chan] = "open"

\* C2: on a live port, cts is the boolean of the TerminalReady update that
\* was applied last (an inbound Control/TerminalReady frame with a value
\* byte, or a local dtr_rts), and 0 when none was applied yet; frames that
\* are rejected and Data frames do not count.
C2_LastWriteWins ==
    \A c \in Chan :
        Live(c) => cts[c] = (IF applied[c] = -1 THEN 0 ELSE applied[c])

C2_Witness ==
    /\ last.op = "cb" /\ last.handler = "ctrl"
    /\ TerminalReady(last.msg) = 0
    /\ applied[last.chan] = 0 /\ cts[last.chan] = 0
    /\ dtr.pc = "idle" /\ tty[last.chan] = "open"

\* C3: an inbound TerminalReady frame that moves cts from 0 to 1 signals
\* the writer wakeup in the same dispatch, after the flag was set; an
\* inbound TerminalReady with value 0, a rejected frame and a Data frame
\* signal no wakeup.
C3_Wakeup ==
    [][/\ \A c \in Chan :
            (RanHandler(c) /\ rx.pc = "ctrl" /\ cts[c] = 0 /\ cts'[c] = 1)
               => WakesAfterSet(last'.trace)
       /\ Wakes(last'.trace)
            => rx.pc = "ctrl" /\ TerminalReady(rx.data) = 1]_vars

C3_Witness ==
    /\ last.op = "cb" /\ last.handler = "ctrl"
    /\ TerminalReady(last.msg) = 1
    /\ WakesAfterSet(last.trace)
    /\ cts[last.chan] = 1

\* C4: rpmsg_tty_cb rejects every message of total length 0 or 1, whatever
\* its tag: it returns -EINVAL, calls no handler, delivers nothing to the
\* tty and changes nothing of the port.
C4_ShortFrameRejected ==
    [][\A c \in Chan :
         (CalledCb(c) /\ Len(CbMsg) <= 1)
            => /\ last'.op = "cb" /\ last'.ret = -EINVAL
               /\ last'.handler = "none" /\ last'.copied = 0
               /\ rx'.pc = "idle"
               /\ fault' = "none"
               /\ UNCHANGED <<st, portvars>>]_vars

C4_Witness ==
    /\ last.op = "cb" /\ last.ret = -EINVAL
    /\ last.msg = <<RPMSG_CTRL>>
    /\ Live(last.chan)

\* C5 as stated: a frame of total length 1 whose byte is the Data tag is
\* accepted, decodes to Data with an empty payload, and delivers zero
\* bytes.
C5_EmptyDataAccepted ==
    (last.op = "cb" /\ last.msg = <<RPMSG_DATA>>)
       => (last.ret = 0 /\ last.handler = "data" /\ last.copied = 0)

\* C5, amended: a frame of total length 1 whose byte is the Data tag is
\* rejected by rpmsg_tty_cb with -EINVAL; the data handler is not called
\* and zero bytes are delivered.
C5_EmptyDataRejected ==
    [][\A c \in Chan :
         (CalledCb(c) /\ CbMsg = <<RPMSG_DATA>>)
            => /\ last'.op = "cb" /\ last'.ret = -EINVAL
               /\ last'.handler = "none"
               /\ rx'.pc = "idle"
               /\ last'.copied = 0 /\ flip' = flip]_vars

C5_Witness ==
    /\ last.op = "cb" /\ last.msg = <<RPMSG_DATA>>
    /\ last.ret = -EINVAL
    /\ tty[last.chan] = "open"

\* C6: a message whose first byte is a type tag outside {0, 1} is dropped
\* by rpmsg_tty_cb with an error result; no handler is called through the
\* table, and the flag and the flip buffer stay as they were.
C6_UnknownTagDropped ==
    [][\A c \in Chan :
         (CalledCb(c) /\ Len(CbMsg) >= 1
             /\ CbMsg[1] \notin {RPMSG_DATA, RPMSG_CTRL})
            => /\ last'.op = "cb" /\ last'.ret < 0
               /\ last'.handler = "none"
               /\ rx'.pc = "idle"
               /\ fault' = "none"
               /\ cts' = cts /\ flip' = flip]_vars

C6_Witness ==
    /\ last.op = "cb" /\ last.ret = -EINVAL
    /\ Len(last.msg) = MaxMsgLen
    /\ last.msg[1] = NUM_RPMSG_TTY_TYPE
    /\ cts[last.chan] = 1

\* C7: a Control frame of the two header bytes only is rejected by the
\* control handler, which leaves cts as it was and wakes nobody; cts is
\* stored, and the value byte read, only when the message has a third
\* byte.
C7_ControlHeaderOnly ==
    [][\A c \in Chan :
         (RanHandler(c) /\ rx.pc = "ctrl")
            => /\ Len(rx.data) = 2
                    => /\ last'.trace = <<"invalid">>
                       /\ ~Wakes(last'.trace)
                       /\ fault' = "none"
                       /\ UNCHANGED <<st, portvars>>
               /\ (cts'[c] # cts[c] \/ applied'[c] # applied[c]
                      \/ 3 \in last'.rd)
                    => Len(rx.data) >= 3]_vars

C7_Witness ==
    /\ last.op = "cb" /\ last.handler = "ctrl"
    /\ last.msg = <<RPMSG_CTRL, DATA_TERM_READY>>
    /\ last.trace = <<"invalid">>
    /\ cts[last.chan] = 1

\* C8: a Control frame with a value whose control id is not
\* DATA_TERM_READY changes nothing: cts keeps its value, nobody is woken
\* and no byte is delivered, whatever the value bytes.
C8_UnknownControlId ==
    [][\A c \in Chan :
         (RanHandler(c) /\ rx.pc = "ctrl" /\ Len(rx.data) >= 3
             /\ rx.data[2] # DATA_TERM_READY)
            => /\ last'.trace = <<"unknown">>
               /\ ~Wakes(last'.trace)
               /\ last'.copied = 0
               /\ fault' = "none"
               /\ UNCHANGED <<st, portvars>>]_vars

C8_Witness ==
    /\ last.op = "cb" /\ last.handler = "ctrl"
    /\ Len(last.msg) = 3 /\ last.msg[2] # DATA_TERM_READY
    /\ last.msg[3] # 0
    /\ last.trace = <<"unknown">>
    /\ cts[last.chan] = 0 /\ Live(last.chan)

\* C9: a write that passed the gate and whose frame the transport accepts
\* has handed over exactly one frame, byte 0 = RPMSG_DATA followed by the
\* first min(len, M - 1) bytes of the buffer in order, and returns
\* min(len, M - 1), M being the maximum the transport answered; a buffer
\* that does not fit is cut, not refused.
C9_DataFrame ==
    [][\A c \in Chan :
         (SentWrite(c) /\ last'.sent # <<>> /\ last'.sres = 0)
            => LET buf == wr.data
                   n == Min(Len(buf), last'.arg - 1)
               IN /\ n >= 0
                  /\ last'.op = "write"
                  /\ last'.sent = << <<RPMSG_DATA>> \o Prefix(buf, n) >>
                  /\ last'.ret = n
                  /\ fault' = "none"]_vars

C9_Witness ==
    /\ last.op = "write" /\ last.sres = 0 /\ last.sent # <<>>
    /\ Len(last.msg) = 2 /\ last.arg = 2
    /\ last.ret = 1
    /\ Len(last.sent[1]) = 2

\* C10: dtr_rts stores the asserted value in cts and try-sends the frame
\* [RPMSG_CTRL, DATA_TERM_READY, v], and between the store and the
\* try-send no other operation of the port reads or writes the flag: no
\* write, no write_room and no control handler runs.
C10_DtrRtsOneStep ==
    [][\A c \in Chan :
         (dtr.pc = "ctrl" /\ dtr.chan = c)
            => /\ ~CalledWrite(c)
               /\ ~SentWrite(c)
               /\ ~(last'.op = "write_room" /\ last'.chan = c)
               /\ ~(RanHandler(c) /\ rx.pc = "ctrl")
               /\ (dtr'.pc = "idle" /\ last'.sent # <<>>)
                    => last'.sent =
                         << <<RPMSG_CTRL, DATA_TERM_READY,
                              IF dtr.arg # 0 THEN 1 ELSE 0>> >>]_vars

\* a control frame was handed to rpmsg_trysend on channel c by this step
SentControl(c) ==
    /\ last'.op \in {"throttle", "unthrottle", "dtr_rts"}
    /\ last'.chan = c
    /\ last'.sent # <<>>

\* C11: when rpmsg_trysend fails for a TerminalReady control frame sent by
\* dtr_rts, throttle or unthrottle, rpmsg_tty_write_control returns 0: the
\* frame was tried once and is not kept for a retry, no caller sees the
\* error, and the cts flag, like the rest of the port, is what it was
\* before the send was tried.
C11_ControlBestEffort ==
    [][\A c \in Chan :
         (SentControl(c) /\ last'.sres < 0)
            => /\ last'.ret = 0
               /\ Len(last'.sent) = 1
               /\ last'.sent[1][1] = RPMSG_CTRL
               /\ last'.sent[1][2] = DATA_TERM_READY
               /\ dtr' = (IF last'.op = "dtr_rts" THEN Idle ELSE dtr)
               /\ fault' = "none"
               /\ UNCHANGED <<st, portvars, rx, wr>>]_vars

C11_Witness ==
    /\ last.op = "dtr_rts" /\ last.arg = 1
    /\ last.sres < 0 /\ last.ret = 0
    /\ last.sent = << <<RPMSG_CTRL, DATA_TERM_READY, 1>> >>
    /\ cts[last.chan] = 1 /\ applied[last.chan] = 1

\* C12: rpmsg_tty_write hands its frame to rpmsg_trysend only, and when
\* rpmsg_trysend does not take the frame, whatever its error, the write
\* returns 0 and not an error code, and leaves cts and the rest of the port
\* as they were; a write that passed the gate always comes to its return
\* (or the system has stopped on a fault).
C12_WriteNeverWaits ==
    /\ [][\A c \in Chan :
            (SentWrite(c) /\ last'.sent # <<>> /\ last'.sres # 0)
               => /\ last'.op = "write" /\ last'.ret = 0
                  /\ Len(last'.sent) = 1
                  /\ wr' = Idle
                  /\ fault' = "none"
                  /\ UNCHANGED <<st, portvars, rx, dtr>>]_vars
    /\ (wr.pc = "send") ~> (wr.pc = "idle" \/ fault # "none")

C12_Witness ==
    /\ last.op = "write" /\ last.sres = -ENOMEM /\ last.ret = 0
    /\ last.sent # <<>> /\ last.msg # <<>>
    /\ cts[last.chan] = 1 /\ wr.pc = "idle"

\* C13: every frame the driver hands to the transport is taken by its own
\* receive path and gives back the kind and the payload that went in: a
\* Data frame of a buffer that fits the payload size gives "data" and the
\* bytes of the buffer, a control frame gives "ctrl" and the control id
\* with its value.
C13_RoundTrip ==
    \A i \in DOMAIN last.sent :
        /\ (last.op = "write" /\ Len(last.msg) + SizeofPayload <= last.arg)
              => rpmsg_tty_decode(last.sent[i]) =
                    [kind |-> "data", payload |-> last.msg]
        /\ last.op \in {"throttle", "unthrottle", "dtr_rts"}
              => rpmsg_tty_decode(last.sent[i]) =
                    [kind |-> "ctrl",
                     payload |-> <<DATA_TERM_READY,
                                   IF last.arg # 0 THEN 1 ELSE 0>>]

\* C14: when a Data frame with L payload bytes reaches a port whose flip
\* buffer has room for K < L bytes, the first K payload bytes are added to
\* the flip buffer in order and the other L - K bytes are dropped: nothing
\* of the message is kept for later, the copy reports K, and rpmsg_tty_cb
\* returns 0.
C14_BestEffortDelivery ==
    [][\A c \in Chan :
         LET L == Len(rx.data) - SizeofPayload
             K == TtyBufLimit - Len(flip[c])
         IN (RanHandler(c) /\ rx.pc = "data" /\ PortFault(c) = "none"
                /\ K < L)
               => /\ flip'[c] = flip[c] \o Prefix(Tail(rx.data), K)
                  /\ last'.copied = K
                  /\ last'.op = "cb" /\ last'.ret = 0
                  /\ last'.handler = "data"
                  /\ rx' = Idle
                  /\ fault' = "none"
                  /\ UNCHANGED <<st, tty_idr, id, cts, rpdev, drvdata,
                                 ttydev, tty, initialized, xmit_buf, hup,
                                 applied, wr, dtr>>]_vars

C14_Witness ==
    /\ last.op = "cb" /\ last.handler = "data" /\ last.ret = 0
    /\ Len(last.msg) = 3
    /\ last.copied = 1
    /\ flip[last.chan] # <<>>
    /\ flip[last.chan][Len(flip[last.chan])] = last.msg[2]
    /\ Len(flip[last.chan]) = TtyBufLimit

\* rpmsg_tty_alloc_cport ran for channel c in this step
CalledAlloc(c) ==
    /\ st[c] = "none"
    /\ \/ st'[c] = "p_alloc"
       \/ last'.op = "probe" /\ last'.chan = c

\* the ids of the registry that are free after the step
FreeIdsAfter == {i \in DOMAIN tty_idr : tty_idr'[i] = NULL}

\* C15: with all MAX_TTY_RPMSG ids taken, a port creation fails and leaves
\* the registry as it was; its error is the capacity error -ENOSPC (-ENOMEM
\* only when the port structure itself could not be allocated).  A creation
\* that succeeds takes the lowest id that was free and nothing else, so
\* when one id was free, the one just released, it takes that one.
C15_RegistryCapacity ==
    [][\A c \in RegChan :
         CalledAlloc(c)
            => /\ FreeIds = {}
                    => /\ st'[c] = "none"
                       /\ last'.ret \in {-ENOSPC, -ENOMEM}
                       /\ tty_idr' = tty_idr
               /\ st'[c] = "none"
                    => /\ last'.ret \in {-ENOSPC, -ENOMEM}
                       /\ tty_idr' = tty_idr
               /\ st'[c] = "p_alloc"
                    => /\ id'[c] \in FreeIds
                       /\ id'[c] \in 0..(MAX_TTY_RPMSG - 1)
                       /\ \A j \in FreeIds : id'[c] <= j
                       /\ tty_idr' = [tty_idr EXCEPT ![id'[c]] = c]]_vars

\* The registry was full, channel 1 was removed, the spare channel took the
\* id it left, and the next creation failed for lack of an id.
C15_Witness ==
    /\ FreeIds = {}
    /\ Live(MAX_TTY_RPMSG + 1) /\ id[MAX_TTY_RPMSG + 1] = 0
    /\ tty_idr[0] = MAX_TTY_RPMSG + 1
    /\ last.op = "probe" /\ last.ret = -ENOSPC /\ last.chan = 1
    /\ st[1] = "none"

\* C16: whatever the interleaving of probes, failed or not, and removes,
\* every id of the registry that is taken holds a port that is allocated
\* and that has this id, and every allocated port is in the registry under
\* its id; so no two ports share an id and no entry holds a released port.
C16_RegistryBijection ==
    /\ \A i \in DOMAIN tty_idr :
          tty_idr[i] # NULL => Live(tty_idr[i]) /\ id[tty_idr[i]] = i
    /\ \A c \in DOMAIN st :
          Live(c) => id[c] \in DOMAIN tty_idr /\ tty_idr[id[c]] = c
    /\ \A c, d \in DOMAIN st :
          (Live(c) /\ Live(d) /\ c # d) => id[c] # id[d]

\* Two channels are in the middle of a probe and of a remove, and a removed
\* port has left the registry.
C16_Witness ==
    /\ \E c, d \in RegChan :
          /\ st[c] = "p_alloc" /\ st[d] = "r_unreg"
    /\ \E c \in RegChan : st[c] = "r_done" /\ tty_idr[id[c]] # c

\* C17: when tty_port_register_device fails in probe, probe returns that
\* error, and at its return the port is released: its id holds nothing in
\* the registry and is free for the next creation.
C17_RegistrationRollback ==
    [][\A c \in RegChan :
         (st[c] = "p_alloc" /\ st'[c] # "p_reg" /\ st'[c] # "p_alloc")
            => /\ st'[c] = "none" /\ ~ttydev'[c]
               /\ last'.op = "probe" /\ last'.chan = c
               /\ last'.sres < 0 /\ last'.ret = last'.sres
               /\ tty_idr[id[c]] = c
               /\ tty_idr' = [tty_idr EXCEPT ![id[c]] = NULL]
               /\ id[c] \in FreeIdsAfter]_vars

\* A registration has just failed on the spare channel, and the id its
\* port had is the one free id of the registry.
C17_Witness ==
    /\ last.op = "probe" /\ last.ret = -EINVAL /\ last.sres = -EINVAL
    /\ last.chan = MAX_TTY_RPMSG + 1
    /\ st[last.chan] = "none"
    /\ FreeIds = {id[last.chan]}

\* the lifecycle states of a port that has a tty device
Attached(c) == Live(c) /\ ttydev[c] /\ tty[c] # "open"

Active(c) == Live(c) /\ tty[c] = "open"

\* C18: at all times cport->rpdev of an allocated port is set exactly when
\* the port is Attached or Active, and so no operation of the tty (write,
\* write_room, or the control frame of dtr_rts, throttle and unthrottle)
\* goes through a NULL rpdev.
C18_EndpointRef ==
    /\ \A c \in Chan :
          Live(c) => ((rpdev[c] # NULL) <=> (Attached(c) \/ Active(c)))
    /\ ~(fault = "null_deref"
            /\ last.op \in {"write", "write_room", "dtr_rts", "throttle",
                            "unthrottle"})

\* C19: a receive handler in flight for a channel always has a port that is
\* not released, the release waiting for it; and once remove has taken the
\* port out of the registry, rpmsg_tty_cb for that channel calls no handler
\* and drops the message: no dispatch works on a released port.
C19_DestroyVsDispatch ==
    /\ [](\A c \in Chan :
             (rx.pc # "idle" /\ rx.chan = c) => st[c] # "r_done")
    /\ [][\A c \in Chan :
            (CalledCb(c) /\ st[c] = "r_done")
               => rx'.pc = "idle" /\ last'.handler = "none"]_vars
    /\ [](~(fault = "use_after_free" /\ last.op = "cb"))

\* C20: whatever the interleaving of an inbound TerminalReady update with a
\* write on the same port, the write sees one value of cts from its gate to
\* its send: when the update is handled after the write passed the gate,
\* the write does not go on to hand its Data frame to rpmsg_trysend with
\* cts cleared.
C20_WriteSeesOneFlag ==
    [][\A c \in Chan :
         (/\ SentWrite(c) /\ last'.sent # <<>>
          /\ last.op = "cb" /\ last.handler = "ctrl" /\ last.chan = c
          /\ TerminalReady(last.msg) # -1)
            => cts[c] # 0]_vars

\* C21: rpmsg_tty_remove goes through its steps in one order.  It asks for
\* a hangup only when the port is initialized, and goes on without waiting
\* for it: the session is still bound when the step is over.  Then it
\* unregisters the tty device, the id still in the registry; and only then
\* takes the id out of the registry and frees the port.
C21_TeardownOrder ==
    /\ [][\A c \in Chan :
            /\ (st[c] = "bound" /\ st'[c] # "bound")
                  => /\ st'[c] = "r_hup"
                     /\ hup'[c] => initialized[c]
                     /\ (initialized[c] /\ tty[c] = "open") => hup'[c]
                     /\ tty'[c] = tty[c]
                     /\ ttydev'[c] = ttydev[c] /\ tty_idr' = tty_idr
            /\ (st[c] = "r_hup" /\ st'[c] # "r_hup")
                  => /\ st'[c] = "r_unreg"
                     /\ ttydev[c] /\ ~ttydev'[c]
                     /\ tty_idr' = tty_idr /\ tty_idr[id[c]] = c
            /\ (st[c] = "r_unreg" /\ st'[c] # "r_unreg")
                  => /\ st'[c] = "r_done"
                     /\ ~ttydev[c]
                     /\ tty_idr[id[c]] = c /\ tty_idr'[id[c]] = NULL
                     /\ last'.op = "remove" /\ last'.chan = c
            /\ (st'[c] = "r_done" /\ st[c] # "r_done") => st[c] = "r_unreg"
            /\ (st'[c] = "r_hup" /\ st[c] # "r_hup") => st[c] = "bound"]_vars
    /\ [](\A c \in Chan :
            /\ st[c] = "r_hup" => (ttydev[c] /\ tty_idr[id[c]] = c)
            /\ st[c] = "r_unreg" => (~ttydev[c] /\ tty_idr[id[c]] = c)
            /\ st[c] = "r_done" => (~ttydev[c] /\ tty_idr[id[c]] # c))

\* remove has returned while the hangup it asked for has not run
C21_Witness ==
    /\ last.op = "remove" /\ st[last.chan] = "r_done"
    /\ hup[last.chan] /\ tty[last.chan] = "stale"
    /\ ~ttydev[last.chan] /\ tty_idr[id[last.chan]] = NULL

\* port->ops->shutdown ran on the port of channel c in this step
CalledShutdown(c) ==
    last'.op = "shutdown" /\ last'.chan = c /\ last'.handler # "fault"

\* C22: a shutdown frees the transmit buffer when the port has one and
\* frees nothing when it has none, and changes nothing else of the port;
\* so a shutdown that follows a shutdown, with no activate between them,
\* leaves the port as the first one left it, and the buffer that activate
\* allocated is freed once.
C22_ShutdownIdempotent ==
    [][\A c \in Chan :
         CalledShutdown(c)
            => /\ ~xmit_buf'[c]
               /\ last'.freed = (IF xmit_buf[c] THEN 1 ELSE 0)
               /\ UNCHANGED <<st, tty_idr, id, cts, rpdev, drvdata, ttydev,
                              tty, initialized, flip, hup, applied>>
               /\ (last.op = "shutdown" /\ last.chan = c
                      /\ last.handler # "fault")
                    => /\ last'.freed = 0
                       /\ UNCHANGED <<st, portvars>>]_vars

\* the second of two shutdowns has returned: the session that activate gave
\* a buffer is still open, the buffer is gone and this call freed nothing
C22_Witness ==
    /\ last.op = "shutdown" /\ last.freed = 0 /\ last.handler # "fault"
    /\ tty[last.chan] = "open" /\ initialized[last.chan]
    /\ ~xmit_buf[last.chan]

\* the step is a step of an operation on channel a: of its probe or remove,
\* of its receive callback, of its write or dtr_rts, or an operation of its
\* tty session that returned
Actor(a) ==
    \/ st'[a] # st[a]
    \/ last'.op # "none" /\ last'.chan = a
    \/ rx.pc = "idle" /\ rx'.pc # "idle" /\ rx'.chan = a
    \/ rx.pc # "idle" /\ rx.chan = a
    \/ wr.pc = "idle" /\ wr'.pc # "idle" /\ wr'.chan = a
    \/ wr.pc # "idle" /\ wr.chan = a
    \/ dtr.pc = "idle" /\ dtr'.pc # "idle" /\ dtr'.chan = a
    \/ dtr.pc # "idle" /\ dtr.chan = a
    \/ tty'[a] # tty[a]

\* C23: a step of an operation on one channel that does not fault (a frame
\* received, valid or refused, a write, a dtr_rts, throttle or unthrottle, a
\* creation that fails, a remove) leaves cts, id and rpdev of the port of
\* every other channel as they were, and the registry entries that hold
\* that other port.
C23_PortIsolation ==
    [][\A a \in Chan :
         (Actor(a) /\ fault' = "none")
            => \A b \in Chan \ {a} :
                  /\ cts'[b] = cts[b]
                  /\ id'[b] = id[b]
                  /\ rpdev'[b] = rpdev[b]
                  /\ \A i \in DOMAIN tty_idr :
                        (tty_idr[i] = b) <=> (tty_idr'[i] = b)]_vars

\* channel 2 has just taken a TerminalReady(0) while the port of channel 1
\* is open with its flag set
C23_Witness ==
    /\ last.op = "cb" /\ last.chan = 2 /\ last.handler = "ctrl"
    /\ TerminalReady(last.msg) = 0 /\ cts[2] = 0
    /\ Live(1) /\ Live(2) /\ id[1] # id[2]
    /\ cts[1] = 1 /\ rpdev[1] = 1 /\ tty[1] = "open"

\* C24: with a remote side that sends Data frames and never a Control
\* frame, a Data frame that reaches a port is put in the flip buffer as far
\* as there is room, whatever cts is; and once dtr_rts(1) was the last
\* update of the flag, a write on the open tty passes the gate, and its
\* frame is handed to rpmsg_trysend when the transport answers a payload
\* size of at least 1 and the frame buffer can be allocated.
C24_ControlOptional ==
    [][\A c \in Chan :
         /\ (RanHandler(c) /\ rx.pc = "data" /\ PortFault(c) = "none")
               => LET n == Min(Len(rx.data) - SizeofPayload,
                               TtyBufLimit - Len(flip[c]))
                  IN /\ flip'[c] = flip[c] \o Prefix(Tail(rx.data), n)
                     /\ last'.copied = n /\ last'.ret = 0
         /\ (CalledWrite(c) /\ tty[c] = "open" /\ applied[c] = 1)
               => /\ cts[c] = 1
                  /\ wr'.pc = "send" /\ wr'.chan = c /\ wr'.data = WriteBuf
                  /\ fault' = "none"
         /\ (SentWrite(c) /\ fault' = "none" /\ last'.arg >= 1
                /\ last'.ret # -ENOMEM)
               => /\ Len(last'.sent) = 1
                  /\ last'.sent[1][1] = RPMSG_DATA]_vars

\* a Data frame was delivered and, after dtr_rts(1) with no Control frame
\* ever received, a write has sent its bytes
C24_Witness ==
    /\ last.op = "write" /\ last.sres = 0 /\ last.ret >= 1
    /\ last.sent # <<>> /\ applied[last.chan] = 1
    /\ flip[last.chan] # <<>> /\ tty[last.chan] = "open"

\* rpmsg_tty_write_room ran on channel c in this step and returned
CalledWriteRoom(c) ==
    last'.op = "write_room" /\ last'.chan = c /\ last'.handler # "fault"

\* C25: a port is born with cts = 0 and keeps it until the first
\* TerminalReady update is applied, inbound or by dtr_rts: until then a
\* write on its tty returns 0 and sends nothing, and write_room answers 0.
C25_StartsBlocked ==
    /\ [](\A c \in Chan : (Live(c) /\ applied[c] = -1) => cts[c] = 0)
    /\ [][\A c \in Chan :
            /\ (CalledWrite(c) /\ tty[c] = "open" /\ applied[c] = -1)
                  => /\ last'.op = "write" /\ last'.ret = 0
                     /\ last'.sent = <<>> /\ wr'.pc = "idle"
            /\ (CalledWriteRoom(c) /\ tty[c] = "open" /\ applied[c] = -1)
                  => last'.ret = 0
            /\ (st[c] = "p_reg" /\ st'[c] = "bound")
                  => cts'[c] = 0 /\ applied'[c] = -1]_vars

\* probe has returned, the tty is open, no update was applied yet, and
\* write_room has just answered 0
C25_Witness ==
    /\ last.op = "write_room" /\ last.ret = 0
    /\ st[last.chan] = "bound" /\ tty[last.chan] = "open"
    /\ applied[last.chan] = -1 /\ cts[last.chan] = 0

\* C26: a write that passed the gate, with the transport answering a
\* payload size M >= 0, never stores through an empty frame buffer; the
\* frame it hands over has at least the type byte and at most min(len,
\* M - 1) payload bytes, its result r is between 0 and that number and,
\* when the frame is taken, one less than the length of the frame, and r
\* is at most M - 1, which is what write_room answers for that M; and
\* write_room never answers a negative number for M >= 0.
C26_WriteSizeBounds ==
    /\ fault # "zero_size_store"
    /\ (last.op = "write" /\ last.sent # <<>>)
          => LET frame == last.sent[1]
                 M == last.arg
                 most == Min(Len(last.msg), M - 1)
             IN /\ M >= 1
                /\ Len(frame) >= 1
                /\ Len(frame) - 1 <= most
                /\ 0 <= last.ret /\ last.ret <= most
                /\ last.sres = 0 => last.ret + 1 = Len(frame)
                /\ last.ret <= M - SizeofPayload
    /\ (last.op = "write_room" /\ last.arg >= 0) => last.ret >= 0

\* C27: once remove has released the port of a channel, no operation of a
\* tty session that is still bound to it (write, write_room, throttle,
\* unthrottle, dtr_rts, shutdown) reads or writes the port.
C27_NoUseAfterRelease ==
    ~(/\ fault = "use_after_free"
      /\ last.op \in {"write", "write_room", "throttle", "unthrottle",
                      "dtr_rts", "shutdown"})

\* throttle or unthrottle ran on channel c in this step and returned
CalledThrottle(c, op) ==
    last'.op = op /\ last'.chan = c /\ last'.handler # "fault"

\* C28: throttle try-sends the one frame [RPMSG_CTRL, DATA_TERM_READY, 0]
\* and unthrottle the one frame [RPMSG_CTRL, DATA_TERM_READY, 1], unless
\* the frame cannot be allocated, and neither changes cts or anything else
\* of the port; cts of a port changes only in dtr_rts and in the handling
\* of an inbound TerminalReady frame.
C28_ThrottleKeepsFlag ==
    [][\A c \in Chan :
         /\ CalledThrottle(c, "throttle")
               => /\ UNCHANGED <<st, portvars>>
                  /\ last'.ret # -ENOMEM =>
                        last'.sent = << <<RPMSG_CTRL, DATA_TERM_READY, 0>> >>
                  /\ last'.ret = -ENOMEM => last'.sent = <<>>
         /\ CalledThrottle(c, "unthrottle")
               => /\ UNCHANGED <<st, portvars>>
                  /\ last'.ret # -ENOMEM =>
                        last'.sent = << <<RPMSG_CTRL, DATA_TERM_READY, 1>> >>
                  /\ last'.ret = -ENOMEM => last'.sent = <<>>
         /\ (cts'[c] # cts[c] /\ st'[c] = st[c])
               => \/ dtr.pc = "idle" /\ dtr'.pc = "ctrl" /\ dtr'.chan = c
                  \/ /\ RanHandler(c) /\ rx.pc = "ctrl"
                     /\ TerminalReady(rx.data) # -1]_vars

\* unthrottle has sent its frame on a port whose flag is 0 and stays 0
C28_Witness ==
    /\ last.op = "unthrottle" /\ last.sres = 0
    /\ last.sent = << <<RPMSG_CTRL, DATA_TERM_READY, 1>> >>
    /\ cts[last.chan] = 0 /\ applied[last.chan] = 0
    /\ tty[last.chan] = "open"

\* no controller is inside stm32_fmc2_enable, stm32_fmc2_disable, probe or
\* resume
Fmc2Quiescent == \A k \in Ctrl : fmc2_ctrl[k].pc = "idle"

\* C29: nb_ctrl_used is never negative, and whenever no controller is
\* inside a call, FMC2EN of BCR1 is set exactly when nb_ctrl_used > 0.
C29_EnableRefCount ==
    /\ nb_ctrl_used >= 0
    /\ Fmc2Quiescent
          => ((FMC2_BCR1_FMC2EN \in regmap[FMC2_BCR1]) <=> nb_ctrl_used > 0)

\* C30: every chip select parse_dt has recorded in cs_assigned is below
\* FMC2_MAX_EBI_CE, so that disable_banks, save_setup and set_setup go
\* through its bank; parse_dt writes the control register of a bank of the
\* block only, and none when it refuses the reg value as out of range or
\* as a duplicate.
C30_ChipSelectBounds ==
    /\ \A cs \in ebi.cs_assigned : 0 <= cs /\ cs < FMC2_MAX_EBI_CE
    /\ last.op = "stm32_fmc2_ebi_parse_dt"
          => /\ last.rd \subseteq
                   {FMC2_BCR(x) : x \in 0..(FMC2_MAX_EBI_CE - 1)}
             /\ (/\ last.ret # 0
                 /\ \/ last.arg >= FMC2_MAX_EBI_CE
                    \/ last.arg \in ebi.cs_assigned)
                   => last.rd = {}

=============================================================================
